---- MODULE Spec2Model ----
(***************************************************************************)
(* A model of the RAVE training module (rave/model.py), the receptive      *)
(* field probe (rave/core.py), the residual vector quantizer and the       *)
(* delay bookkeeping of the residual / upsampling blocks (rave/blocks.py). *)
(*                                                                         *)
(* The Lightning trainer is an external collaborator: it is modelled as    *)
(* the caller that invokes the hooks of RAVE and of WarmupCallback.        *)
(***************************************************************************)
EXTENDS Integers, Naturals, Sequences, FiniteSets, TLC

VARIABLES
    \* ---- rave/model.py : RAVE and WarmupCallback -------------------------
    pc,                 \* position of the trainer that drives the hooks
    warmup,             \* RAVE.warmup (= phase_1_duration)
    valid_signal_crop,  \* RAVE.valid_signal_crop (configuration switch)
    saved_step,         \* RAVE.saved_step, read by on_train_start only
    callback_attached,  \* whether a WarmupCallback is among the callbacks
    epoch_len,          \* len(train): batches per epoch
    warmed_up,          \* RAVE.warmed_up
    training_steps,     \* WarmupCallback.state['training_steps']
    cb_state_dict,      \* dict on its way from WarmupCallback.state_dict()
                        \* to load_state_dict() of a new WarmupCallback,
                        \* and whether one was ever written
    receptive_field,    \* RAVE.receptive_field buffer, <<left, right>>
    batch_idx,          \* batch index the trainer passes next
    global_step,        \* training batches processed so far
    fits,               \* number of on_train_start calls so far
    eval_number,        \* RAVE.eval_number
    val_out,            \* len(out): validation outputs gathered this epoch
    ts,                 \* what the last training_step did
    ts_prev,            \* what the training_step before it (same run) did
    vs,                 \* what the last validation_step did
    encoder,            \* class of RAVE.encoder
    enc_warmed_up,      \* RAVE.encoder.warmed_up buffer
    dec_warmed_up,      \* RAVE.decoder.warmed_up buffer
    val_z,              \* the latent means in out, one per validation_step
    latent_stats,       \* the latent_mean, latent_pca and fidelity buffers
    \* ---- rave/core.py : get_rave_receptive_field -------------------------
    net_rf,             \* the network under probe: [leak, left, right]
    probe_N,            \* N, the probe window
    grad_edges,         \* <<left_grad[0] != 0, right_grad[-1] != 0>>
    probe_ret,          \* value returned by the last probe
    probe_calls,        \* calls of get_rave_receptive_field so far
    \* ---- rave/blocks.py : ResidualVectorQuantize -------------------------
    rvq_x,              \* input, one scalar per batch element
    rvq_training,       \* self.training
    rvq_dynamic_masking,\* self._dynamic_masking
    mask_threshold,     \* thresholds drawn by torch.randint, per element
    rvq_ret,            \* value returned by forward
    \* ---- rave/blocks.py : cumulative delays ------------------------------
    cd_in,              \* constructor inputs [module, cumulative_delay, ratio]
    cd_out,             \* the block built last and its cumulative_delay
    \* ---- rave/blocks.py : GRU --------------------------------------------
    gru_in,             \* the experiment: input x, split point k, switches
    gru_state,          \* GRU.gru_state buffer, one hidden state per slot
    gru_out,            \* calls made so far and the outputs they returned
    \* ---- rave/model.py : feature matching in training_step ---------------
    fm_in,              \* discriminator features and num_skipped_features
    fm_out,             \* feature_matching_distance
    \* ---- train_rave.py : checkpoint loading ------------------------------
    ckpt_in,            \* what search_for_run / torch.load find
    script,             \* position of the script, the name "model", its
                        \* parameters
    \* ---- rave/core.py : simple_audio_preprocess --------------------------
    pre_in,             \* the file and the configuration
    pre_out,            \* what preprocess(name) did
    \* ---- rave/blocks.py : DiscreteEncoder --------------------------------
    de_in,              \* the enabled buffer, the mode and the input z
    de_codebook,        \* updates the quantizer codebooks have received
    de_out,             \* value returned by reparametrize
    \* ---- rave/core.py : fft_convolve -------------------------------------
    fft_in,             \* signal and kernel
    fft_out,            \* value returned by fft_convolve
    \* ---- rave/blocks.py : DilatedUnit and EncoderV2 ----------------------
    du_in,              \* kernel_size and the dilations list
    du_net,             \* the dilated units appended to net so far
    \* ---- rave/core.py : valid_signal_crop -------------------------------
    crop_in,            \* x (one channel's time axis), dim and the two fields
    crop_out,           \* value returned by valid_signal_crop
    \* ---- rave/core.py : chunking in simple_audio_preprocess -------------
    chunk_in,           \* the loaded array x, N and crop
    chunk_out           \* value returned by preprocess

trainVars == <<pc, warmup, valid_signal_crop, saved_step, callback_attached,
                   cb_state_dict,
               epoch_len, warmed_up, training_steps, receptive_field,
               batch_idx, global_step, fits, eval_number, val_out, ts,
               ts_prev, vs, encoder, enc_warmed_up, dec_warmed_up, val_z,
               latent_stats>>
probeVars == <<net_rf, probe_N, grad_edges, probe_ret, probe_calls>>
rvqVars   == <<rvq_x, rvq_training, rvq_dynamic_masking, mask_threshold,
               rvq_ret>>
cdVars    == <<cd_in, cd_out>>
gruVars   == <<gru_in, gru_state, gru_out>>
fmVars    == <<fm_in, fm_out>>
ckptVars  == <<ckpt_in, script>>
preVars   == <<pre_in, pre_out>>
deVars    == <<de_in, de_codebook, de_out>>
fftVars   == <<fft_in, fft_out>>
duVars    == <<du_in, du_net>>
cropVars  == <<crop_in, crop_out>>
chunkVars == <<chunk_in, chunk_out>>
auxVars   == <<duVars, cropVars, chunkVars>>
unitVars  == <<gruVars, fmVars, ckptVars, preVars, deVars, fftVars, auxVars>>
coreVars  == <<trainVars, probeVars, rvqVars, cdVars>>
vars      == <<coreVars, unitVars>>
trainVarsButPc == <<warmup, valid_signal_crop, saved_step, callback_attached,
                   cb_state_dict,
                    epoch_len, warmed_up, training_steps, receptive_field,
                    batch_idx, global_step, fits, eval_number, val_out, ts,
                    ts_prev, vs, encoder, enc_warmed_up, dec_warmed_up,
                    val_z, latent_stats>>

----------------------------------------------------------------------------
(* Bounds of the model *)

MaxWarmup    == 2      \* phase_1_duration ranges over 0..MaxWarmup
MaxEpochLen  == 3      \* batches per epoch range over 1..MaxEpochLen
MaxSteps     == 5      \* training batches per execution
MaxFits      == 2      \* on_train_start calls per execution
MaxEvals     == 2      \* validation epochs that log audio
MaxValOut    == 1      \* validation batches gathered per validation epoch
MaxDoublings == 2      \* doublings of the probe window that are followed

NumQuantizers == 3     \* num_quantizers of the ResidualVectorQuantize under test
BatchSize    == 2      \* x.shape[0] in ResidualVectorQuantize.forward
MaxInput     == 4      \* latent values range over -MaxInput..MaxInput
MaxDelay     == 4      \* delays passed to the block constructors
MaxRatio     == 3      \* upsampling ratios

GruSlots     == 3      \* slots of gru_state that are followed
GruLen       == 3      \* time steps of the input of the GRU

FmScales     == 2      \* discriminator scales
FmMaps       == 3      \* feature maps per scale

FftLen       == 3      \* samples of the signal and of the kernel

DeBatch      == 1      \* batch size of DiscreteEncoder.reparametrize

CkptKeys     == 2      \* entries of the model's state_dict
CkptSteps    == 1      \* largest global_step of a checkpoint

PreChannels  == 3      \* channels of an audio file, and n_channels
PreSamples   == 3      \* samples of an audio file
PreN         == 2      \* samples per example, N

MaxDilation  == 3      \* dilations range over 1..MaxDilation
DuUnits      == 3      \* longest dilations list
DuKernels    == 2      \* kernel sizes are 3, 5, .., 2 * DuKernels + 1

CropDim      == 2      \* x.shape[1] ranges over 1..CropDim
CropT        == 4      \* samples of x along its last axis
CropRf       == 3      \* left_rf and right_rf range over 0..CropRf

ChunkChannels == 2     \* channels of the loaded array
ChunkSamples  == 4     \* samples of the loaded array
ChunkN        == 3     \* samples per chunk, N

NoAttr == -1           \* the attribute was never assigned

----------------------------------------------------------------------------
(* rave/core.py : get_rave_receptive_field *)

ProbeN0 == 32768       \* N = 2**15

\* The networks put under the probe.  left / right count the input samples
\* before / from the centre sample N // 2 that reach output sample N // 2;
\* leak marks a network whose output depends on the whole window whatever
\* its size.
Networks ==
    { [leak |-> FALSE, left |-> 13,    right |-> 7],
      [leak |-> FALSE, left |-> 16384, right |-> 5],
      [leak |-> FALSE, left |-> 40000, right |-> 40000],
      [leak |-> TRUE,  left |-> 0,     right |-> 0] }

Min(a, b) == IF a < b THEN a ELSE b
Max(a, b) == IF a > b THEN a ELSE b

\* left_grad[0] != 0 : the first sample of the window lies N // 2 before
\* the centre.
LeftEdgeNonZero(net, N)  == net.leak \/ net.left >= N \div 2
\* right_grad[-1] != 0 : the last sample is the (N // 2)-th from the centre.
RightEdgeNonZero(net, N) == net.leak \/ net.right >= N \div 2

\* large_enough = (left_grad[0] == 0) and right_grad[-1] == 0
large_enough_either(edges) == ~edges[1] \/ ~edges[2]
large_enough(edges) == ~edges[1] /\ ~edges[2]

\* The largest window the model follows exactly.
MaxN == ProbeN0 * 2^MaxDoublings

\* len(left_grad[left_grad != 0]), len(right_grad[right_grad != 0])
left_receptive_field(net, N) ==
    IF net.leak THEN N \div 2 ELSE Min(net.left, N \div 2)
right_receptive_field(net, N) ==
    IF net.leak THEN N \div 2 ELSE Min(net.right, N \div 2)

----------------------------------------------------------------------------
(* rave/model.py : RAVE.training_step *)

\* "if batch_idx % 2 and self.warmed_up": the discriminator optimizer steps,
\* otherwise the generator optimizer does.
StepsDiscriminatorAlways(idx, wu) == idx % 2 # 0
StepsDiscriminator(idx, wu) == idx % 2 # 0 /\ wu

\* "if self.valid_signal_crop and self.receptive_field.sum()"
CropsNever(vsc, rf) == FALSE
CropsSignal(vsc, rf) == vsc /\ rf[1] + rf[2] # 0

\* "if not self.receptive_field.sum()" in validation_epoch_end
NeedsProbeAlways(rf) == TRUE
NeedsProbe(rf) == rf[1] + rf[2] = 0

\* What the discriminator branch can yield for (loss_dis, loss_adv,
\* feature_matching_distance): outputs of gan_loss and feature_matching_fun.
DiscLoss == { [loss_dis |-> 1, loss_adv |-> 1, fm |-> 1],
              [loss_dis |-> 2, loss_adv |-> 0, fm |-> 1] }

\* The bottlenecks RAVE.encoder can be configured with.
EncoderKinds == {"Variational", "Wasserstein", "Discrete"}

\* set_warmed_up of VariationalEncoder, WasserteinEncoder, DiscreteEncoder
\* and of the decoder: self.warmed_up = torch.tensor(int(state))
set_warmed_up_pass(buffer, state) == buffer
set_warmed_up(buffer, state) == state

\* forward of the encoder: "if self.warmed_up: z = z.detach()" in
\* VariationalEncoder and WasserteinEncoder; DiscreteEncoder never detaches.
EncoderDetaches(kind, flag) ==
    kind \in {"Variational", "Wasserstein"} /\ flag

\* Latent means a validation batch can produce.
Latents == {1, 2}
NoneLatent == 0        \* mean = None (the encoder is no VariationalEncoder)

\* "if not self.warmed_up and isinstance(self.encoder, VariationalEncoder)"
AnalysesLatentAlways(wu, kind) == TRUE
AnalysesLatent(wu, kind) == ~wu /\ kind = "Variational"

RECURSIVE SeqSum(_)
SeqSum(q) == IF q = <<>> THEN 0 ELSE Head(q) + SeqSum(Tail(q))

\* The buffers after the latent space analysis of validation epoch number
\* ep on the latents zs: latent_mean = z.mean(0) as the fraction sum / count,
\* latent_pca and fidelity fitted on the same latents.
LatentAnalysis(zs, ep) ==
    [latent_mean |-> <<SeqSum(zs), Len(zs)>>, latent_pca |-> ep,
     fidelity |-> ep]

\* torch.eye(latent_size), torch.zeros(latent_size), torch.zeros(latent_size)
InitialStats == [latent_mean |-> <<0, 1>>, latent_pca |-> 0, fidelity |-> 0]

NoStep == [n |-> 0, batch_idx |-> 0, warmed_up |-> FALSE, gen |-> FALSE,
           dis |-> FALSE, disc_called |-> FALSE, loss_dis |-> 0,
           loss_adv |-> 0, fm |-> 0, rf |-> <<0, 0>>,
           crop_x |-> <<0, 0>>, crop_y |-> <<0, 0>>,
           cropped_x |-> FALSE, cropped_y |-> FALSE,
           enc_warmed_up |-> FALSE, dec_warmed_up |-> FALSE,
           z_detached |-> FALSE, enc_grad |-> FALSE]

\* WarmupCallback.__init__: self.state
NewCallbackState == [training_steps |-> 0]

\* no checkpoint written yet
NoStateDict == [saved |-> FALSE, dict |-> <<>>]

NoPrev == [n |-> 0, warmed_up |-> FALSE, gen |-> FALSE, dis |-> FALSE]

NoVal == [n |-> 0, rf |-> <<0, 0>>, cropped_x |-> FALSE, cropped_y |-> FALSE,
          enc_warmed_up |-> FALSE, z_detached |-> FALSE]

----------------------------------------------------------------------------
(* rave/blocks.py : ResidualVectorQuantize *)

Stages == 0..(NumQuantizers - 1)

\* self.layers: one VectorQuantize per stage, each with its own codebook
\* (stage i holds the codes -c, 0, c with c = 2 * (NumQuantizers - i)).
Codebook(i) == LET c == 2 * (NumQuantizers - i) IN <<0 - c, 0, c>>

Abs(v) == IF v < 0 THEN 0 - v ELSE v

\* quantized, _, _ = layer(x): the nearest code, the first one on a tie
Quantize(i, v) ==
    LET cb   == Codebook(i)
        best == CHOOSE k \in 1..Len(cb) :
                    /\ \A j \in 1..Len(cb) : Abs(v - cb[k]) <= Abs(v - cb[j])
                    /\ \A j \in 1..(k - 1) : Abs(v - cb[j]) > Abs(v - cb[k])
    IN  cb[best]

\* x at the head of turn i of "for layer in self.layers" (x = x - quantized)
StageInputNoCascade(i, v) == v
RECURSIVE StageInput(_, _)
StageInput(i, v) ==
    IF i = 0 THEN v
    ELSE LET r == StageInput(i - 1, v) IN r - Quantize(i - 1, r)

\* quantized_list[i] and losses[i] for one batch element
StageQuantized(i, v) == Quantize(i, StageInput(i, v))
StageLoss(i, v) ==
    LET r == StageInput(i, v)
        d == Quantize(i, r) - r
    IN  d * d

\* mask = quant_index > mask_threshold, broadcast to (batch, stage)
MaskInclusive(thr, b, i) == i >= thr[b]
Mask(thr, b, i) == i > thr[b]

\* torch.where(mask, zeros_like(quantized_out), quantized_out)
QuantizerDropout(m, q) == IF m THEN 0 ELSE q

\* torch.where(mask, zeros_like(losses), losses)
LossDropoutOff(m, l) == l
LossDropout(m, l) == IF m THEN 0 ELSE l

\* losses / (mask_threshold + 1): the divisor of element b
LossDivisorBatchWide(thr, b) == thr[1] + 1
LossDivisor(thr, b) == thr[b] + 1

\* .sum(-1) over the stages; losses are kept as exact fractions num / den
RECURSIVE SumStages(_, _)
SumStages(f, i) == IF i < 0 THEN 0 ELSE f[i] + SumStages(f, i - 1)

\* ResidualVectorQuantize.forward for input x, with thr the thresholds that
\* torch.randint drew (read only when training and dynamic masking are on)
forward(x, training, dynamic_masking, thr) ==
    LET masking == training /\ dynamic_masking
        B == 1..Len(x)
        mask == [b \in B |-> [i \in Stages |->
                    IF masking THEN Mask(thr, b, i) ELSE FALSE]]
        quantized_out == [b \in B |-> [i \in Stages |->
                    IF masking
                    THEN QuantizerDropout(mask[b][i], StageQuantized(i, x[b]))
                    ELSE StageQuantized(i, x[b])]]
        losses == [b \in B |-> [i \in Stages |->
                    IF masking
                    THEN LossDropout(mask[b][i], StageLoss(i, x[b]))
                    ELSE StageLoss(i, x[b])]]
    IN  [called    |-> TRUE,
         quantized_list |-> [b \in B |-> [i \in Stages |->
                                StageQuantized(i, x[b])]],
         loss_list |-> [b \in B |-> [i \in Stages |-> StageLoss(i, x[b])]],
         residual  |-> [b \in B |-> StageInput(NumQuantizers, x[b])],
         mask      |-> mask,
         q_stages  |-> quantized_out,
         l_stages  |-> losses,
         quantized |-> [b \in B |->
                          SumStages(quantized_out[b], NumQuantizers - 1)],
         losses    |-> [b \in B |->
                          [num |-> SumStages(losses[b], NumQuantizers - 1),
                           den |-> IF masking THEN LossDivisor(thr, b)
                                   ELSE 1]]]

NotCalled == [called |-> FALSE]

----------------------------------------------------------------------------
(* rave/blocks.py : cumulative delay of Residual, ResidualLayer and        *)
(* UpsampleLayer                                                           *)

\* Residual.__init__: additional_delay = module.cumulative_delay;
\* self.cumulative_delay = additional_delay + cumulative_delay
Residual_cd(module_cd, cumulative_delay) ==
    LET additional_delay == module_cd
    IN  additional_delay + cumulative_delay

\* Residual.__init__: delays=[additional_delay, 0] handed to AlignBranches
Residual_branch_delays(module_cd) == <<module_cd, 0>>

\* ResidualLayer.__init__: self.net = Residual(CachedSequential(*net),
\* cumulative_delay=cumulative_delay); self.cumulative_delay =
\* self.net.cumulative_delay
ResidualLayer_cd(net_cd, cumulative_delay) ==
    Residual_cd(net_cd, cumulative_delay)

\* UpsampleLayer.__init__:
\* self.cumulative_delay = self.net.cumulative_delay + cumulative_delay * ratio
UpsampleLayer_cd_unscaled(net_cd, cumulative_delay, ratio) ==
    net_cd + cumulative_delay
UpsampleLayer_cd(net_cd, cumulative_delay, ratio) ==
    net_cd + cumulative_delay * ratio

----------------------------------------------------------------------------
(* The components that are exercised on their own, at rest *)

IdleGRU == /\ gru_in = [x |-> <<>>, k |-> 0, enabled |-> TRUE,
                        USE_BUFFER_CONV |-> FALSE, state0 |-> <<>>]
           /\ gru_state = <<>>
           /\ gru_out = [calls |-> 0, out |-> <<>>]

IdleFM == /\ fm_in = [features |-> <<>>, num_skipped_features |-> 0]
          /\ fm_out = [called |-> FALSE]

IdleCkpt == /\ ckpt_in = [run |-> "none", state_dict |-> <<>>]
            /\ script = [pc |-> "idle"]

IdlePre == /\ pre_in = [file |-> "none"]
           /\ pre_out = [called |-> FALSE]

IdleDE == /\ de_in = [enabled |-> FALSE, training |-> FALSE,
                       dynamic_masking |-> FALSE, z |-> <<>>]
          /\ de_codebook = 0
          /\ de_out = [calls |-> 0]

IdleFFT == /\ fft_in = [signal |-> <<>>, kernel |-> <<>>]
           /\ fft_out = [called |-> FALSE]

IdleDU == /\ du_in = [kernel_size |-> 1, dilations |-> <<>>]
          /\ du_net = <<>>

IdleCrop == /\ crop_in = [x |-> <<>>, dim |-> 1, left_rf |-> 0,
                          right_rf |-> 0]
            /\ crop_out = [called |-> FALSE]

IdleChunk == /\ chunk_in = [x |-> <<>>, N |-> 1, crop |-> FALSE]
             /\ chunk_out = [called |-> FALSE]

IdleAux == IdleDU /\ IdleCrop /\ IdleChunk

IdleUnits ==
    IdleGRU /\ IdleFM /\ IdleCkpt /\ IdlePre /\ IdleDE /\ IdleFFT /\ IdleAux

----------------------------------------------------------------------------
(* State after construction: RAVE.__init__, WarmupCallback.__init__ and   *)
(* the configuration the run was launched with.                            *)

IdleProbe == /\ probe_N = ProbeN0
             /\ grad_edges = <<FALSE, FALSE>>
             /\ probe_ret = <<0, 0>>
             /\ probe_calls = 0

IdleRVQ == /\ rvq_x = <<>>
           /\ rvq_training = FALSE
           /\ rvq_dynamic_masking = FALSE
           /\ mask_threshold = <<>>
           /\ rvq_ret = NotCalled

IdleCD == /\ cd_in = [module |-> 0, cumulative_delay |-> 0, ratio |-> 1]
          /\ cd_out = [block |-> "none", cumulative_delay |-> 0,
                       branch_delays |-> <<>>]

Init ==
    /\ pc = "ready"
    /\ warmup \in 0..MaxWarmup
    /\ valid_signal_crop \in BOOLEAN
    /\ saved_step \in {NoAttr} \cup 0..(MaxWarmup + 1)
    /\ callback_attached \in BOOLEAN
    /\ epoch_len \in 1..MaxEpochLen
    /\ warmed_up = FALSE
    /\ training_steps = 0
    /\ cb_state_dict = NoStateDict
    /\ receptive_field = <<0, 0>>
    /\ batch_idx = 0
    /\ global_step = 0
    /\ fits = 0
    /\ eval_number = 0
    /\ val_out = 0
    /\ ts = NoStep
    /\ ts_prev = NoPrev
    /\ vs = NoVal
    /\ encoder \in EncoderKinds
    /\ enc_warmed_up = FALSE
    /\ dec_warmed_up = FALSE
    /\ val_z = <<>>
    /\ latent_stats = InitialStats
    /\ net_rf \in Networks
    /\ IdleProbe
    /\ IdleRVQ
    /\ IdleCD
    /\ IdleUnits

----------------------------------------------------------------------------
(* rave/model.py : hooks of RAVE and of WarmupCallback *)

\* RAVE.on_train_start: self.warmed_up = bool(self.saved_step > self.warmup).
\* saved_step is assigned nowhere in the module: the read raises
\* AttributeError when nothing else has set the attribute, and the fit ends.
on_train_start ==
    /\ pc \in {"ready", "loop"}
    /\ fits < MaxFits
    /\ fits' = fits + 1
    /\ IF saved_step = NoAttr
       THEN /\ pc' = "crashed"
            /\ UNCHANGED <<warmed_up, batch_idx, ts, ts_prev>>
       ELSE /\ pc' = "loop"
            /\ warmed_up' = (saved_step > warmup)
            /\ batch_idx' = 0
            /\ ts' = NoStep
            /\ ts_prev' = NoPrev
    /\ UNCHANGED <<warmup, valid_signal_crop, saved_step, callback_attached,
                   cb_state_dict,
                   epoch_len, training_steps, receptive_field, global_step,
                   eval_number, val_out, vs, encoder, enc_warmed_up,
                   dec_warmed_up, val_z, latent_stats>>
    /\ UNCHANGED <<probeVars, rvqVars, cdVars, unitVars>>

\* "if self.state['training_steps'] >= pl_module.warmup"
WarmupOverLate(steps, phase_1_duration) == steps > phase_1_duration
WarmupOver(steps, phase_1_duration) == steps >= phase_1_duration

\* WarmupCallback.on_train_batch_start
on_train_batch_start ==
    /\ pc = "loop"
    /\ callback_attached
    /\ global_step < MaxSteps
    /\ warmed_up' = IF WarmupOver(training_steps, warmup) THEN TRUE
                    ELSE warmed_up
    /\ training_steps' = training_steps + 1
    /\ pc' = "batch"
    /\ UNCHANGED <<warmup, valid_signal_crop, saved_step, callback_attached,
                   cb_state_dict,
                   epoch_len, receptive_field, batch_idx, global_step, fits,
                   eval_number, val_out, ts, ts_prev, vs, encoder,
                   enc_warmed_up, dec_warmed_up, val_z, latent_stats>>
    /\ UNCHANGED <<probeVars, rvqVars, cdVars, unitVars>>

\* dict.update(other)
dict_update(d, other) ==
    [k \in DOMAIN d \cup DOMAIN other |->
       IF k \in DOMAIN other THEN other[k] ELSE d[k]]

\* WarmupCallback.state_dict, called between two batches when the trainer
\* writes a checkpoint: a copy of self.state
callback_state_dict ==
    /\ pc = "loop"
    /\ callback_attached
    /\ ~cb_state_dict.saved
    /\ cb_state_dict' = [saved |-> TRUE,
                         dict |-> [training_steps |-> training_steps]]
    /\ pc' = "saved"
    /\ UNCHANGED <<warmup, valid_signal_crop, saved_step, callback_attached,
                   epoch_len, warmed_up, training_steps, receptive_field,
                   batch_idx, global_step, fits, eval_number, val_out, ts,
                   ts_prev, vs, encoder, enc_warmed_up, dec_warmed_up,
                   val_z, latent_stats>>
    /\ UNCHANGED <<probeVars, rvqVars, cdVars, unitVars>>

\* WarmupCallback.load_state_dict on a new WarmupCallback that takes the
\* place of the one that was saved: self.state.update(state_dict)
callback_load_state_dict ==
    /\ pc = "saved"
    /\ training_steps' =
          dict_update(NewCallbackState, cb_state_dict.dict).training_steps
    /\ cb_state_dict' = [cb_state_dict EXCEPT !.dict = <<>>]
    /\ pc' = "loop"
    /\ UNCHANGED <<warmup, valid_signal_crop, saved_step, callback_attached,
                   epoch_len, warmed_up, receptive_field,
                   batch_idx, global_step, fits, eval_number, val_out, ts,
                   ts_prev, vs, encoder, enc_warmed_up, dec_warmed_up,
                   val_z, latent_stats>>
    /\ UNCHANGED <<probeVars, rvqVars, cdVars, unitVars>>

\* RAVE.training_step(batch, batch_idx)
training_step ==
    /\ \/ pc = "batch"
       \/ pc = "loop" /\ ~callback_attached
    /\ global_step < MaxSteps
    /\ \E d \in DiscLoss :
         LET crop  == CropsSignal(valid_signal_crop, receptive_field)
             useD  == StepsDiscriminator(batch_idx, warmed_up)
             encWu == set_warmed_up(enc_warmed_up, warmed_up)
             decWu == set_warmed_up(dec_warmed_up, warmed_up)
             det   == EncoderDetaches(encoder, encWu)
         IN  /\ enc_warmed_up' = encWu
             /\ dec_warmed_up' = decWu
             /\ ts' = [n       |-> ts.n + 1,
                    batch_idx   |-> batch_idx,
                    warmed_up   |-> warmed_up,
                    gen         |-> ~useD,
                    dis         |-> useD,
                    disc_called |-> warmed_up,
                    loss_dis    |-> IF warmed_up THEN d.loss_dis ELSE 0,
                    loss_adv    |-> IF warmed_up THEN d.loss_adv ELSE 0,
                    fm          |-> IF warmed_up THEN d.fm ELSE 0,
                    rf          |-> receptive_field,
                    crop_x      |-> IF crop THEN receptive_field ELSE <<0, 0>>,
                    crop_y      |-> IF crop THEN receptive_field ELSE <<0, 0>>,
                    cropped_x   |-> crop,
                    cropped_y   |-> crop,
                    enc_warmed_up |-> encWu,
                    dec_warmed_up |-> decWu,
                    z_detached  |-> det,
                    enc_grad    |-> ~useD /\ ~det]
    /\ ts_prev' = [n |-> ts.n, warmed_up |-> ts.warmed_up, gen |-> ts.gen,
                    dis |-> ts.dis]
    /\ batch_idx' = (batch_idx + 1) % epoch_len
    /\ global_step' = global_step + 1
    /\ pc' = "loop"
    /\ UNCHANGED <<warmup, valid_signal_crop, saved_step, callback_attached,
                   cb_state_dict,
                   epoch_len, warmed_up, training_steps, receptive_field,
                   fits, eval_number, val_out, vs, encoder, val_z,
                   latent_stats>>
    /\ UNCHANGED <<probeVars, rvqVars, cdVars, unitVars>>

\* RAVE.validation_step: the distance is computed on x and y as they come
\* out of the inverse PQMF; valid_signal_crop is not called.
validation_step ==
    /\ pc \in {"ready", "loop", "val"}
    /\ val_out < MaxValOut
    /\ eval_number < MaxEvals
    /\ vs' = [n |-> vs.n + 1, rf |-> receptive_field,
              cropped_x |-> FALSE, cropped_y |-> FALSE,
              enc_warmed_up |-> enc_warmed_up,
              z_detached |-> EncoderDetaches(encoder, enc_warmed_up)]
    /\ IF encoder = "Variational"
       THEN \E mean \in Latents : val_z' = Append(val_z, mean)
       ELSE val_z' = Append(val_z, NoneLatent)
    /\ val_out' = val_out + 1
    /\ pc' = "val"
    /\ UNCHANGED <<warmup, valid_signal_crop, saved_step, callback_attached,
                   cb_state_dict,
                   epoch_len, warmed_up, training_steps, receptive_field,
                   batch_idx, global_step, fits, eval_number, ts, ts_prev,
                   encoder, enc_warmed_up, dec_warmed_up, latent_stats>>
    /\ UNCHANGED <<probeVars, rvqVars, cdVars, unitVars>>

\* validation_epoch_end from "if not len(out): return" to its last line
EpochEndTail ==
    /\ eval_number' = IF val_out = 0 THEN eval_number ELSE eval_number + 1
    /\ latent_stats' =
          IF val_out # 0 /\ AnalysesLatent(warmed_up, encoder)
          THEN LatentAnalysis(val_z, eval_number + 1)
          ELSE latent_stats
    /\ val_out' = 0
    /\ val_z' = <<>>
    /\ pc' = IF fits > 0 THEN "loop" ELSE "ready"

\* RAVE.validation_epoch_end(out), up to the call of the probe
validation_epoch_end ==
    /\ pc \in {"ready", "loop", "val"}
    /\ eval_number < MaxEvals
    /\ IF NeedsProbe(receptive_field)
       THEN /\ pc' = "probe"
            /\ probe_N' = ProbeN0
            /\ probe_calls' = probe_calls + 1
            /\ UNCHANGED <<eval_number, val_out, val_z, latent_stats>>
       ELSE /\ EpochEndTail
            /\ UNCHANGED <<probe_N, probe_calls>>
    /\ UNCHANGED <<warmup, valid_signal_crop, saved_step, callback_attached,
                   cb_state_dict,
                   epoch_len, warmed_up, training_steps, receptive_field,
                   batch_idx, global_step, fits, ts, ts_prev, vs, encoder,
                   enc_warmed_up, dec_warmed_up>>
    /\ UNCHANGED <<net_rf, grad_edges, probe_ret, rvqVars, cdVars, unitVars>>

\* First half of a turn of the "while True" loop of
\* get_rave_receptive_field: the forward and backward pass on a window of N
\* samples, up to the chunking of the gradient.
\* When the encoder detaches its output no gradient reaches x and
\* 'assert x.grad is not None, "input has no grad"' ends the run.
probe_backward ==
    /\ pc = "probe"
    /\ IF EncoderDetaches(encoder, enc_warmed_up)
       THEN /\ pc' = "crashed"
            /\ UNCHANGED grad_edges
       ELSE /\ grad_edges' = <<LeftEdgeNonZero(net_rf, probe_N),
                               RightEdgeNonZero(net_rf, probe_N)>>
            /\ pc' = "probe_test"
    /\ UNCHANGED trainVarsButPc
    /\ UNCHANGED <<net_rf, probe_N, probe_ret, probe_calls, rvqVars, cdVars, unitVars>>

\* Second half: "if large_enough: break / else: N *= 2".  After the break
\* the function returns and validation_epoch_end stores the pair and runs
\* to its end.  A leaking network gives every turn the same outcome
\* whatever N is, so for it the windows above MaxN are represented by MaxN.
probe_test ==
    /\ pc = "probe_test"
    /\ IF large_enough(grad_edges)
       THEN LET lrf == left_receptive_field(net_rf, probe_N)
                rrf == right_receptive_field(net_rf, probe_N)
            IN  /\ probe_ret' = <<lrf, rrf>>
                /\ receptive_field' = <<lrf, rrf>>
                /\ EpochEndTail
                /\ UNCHANGED probe_N
       ELSE /\ probe_N < MaxN \/ net_rf.leak
            /\ probe_N' = Min(probe_N * 2, MaxN)
            /\ pc' = "probe"
            /\ UNCHANGED <<probe_ret, receptive_field, eval_number, val_out,
                           val_z, latent_stats>>
    /\ UNCHANGED <<warmup, valid_signal_crop, saved_step, callback_attached,
                   cb_state_dict,
                   epoch_len, warmed_up, training_steps, batch_idx,
                   global_step, fits, ts, ts_prev, vs, encoder,
                   enc_warmed_up, dec_warmed_up>>
    /\ UNCHANGED <<net_rf, grad_edges, probe_calls, rvqVars, cdVars, unitVars>>

Next ==
    \/ on_train_start
    \/ on_train_batch_start
    \/ callback_state_dict
    \/ callback_load_state_dict
    \/ training_step
    \/ validation_step
    \/ validation_epoch_end
    \/ probe_backward
    \/ probe_test

Spec == Init /\ [][Next]_vars

\* The probe loop runs without interruption once entered.
FairSpec == Spec /\ WF_vars(probe_backward) /\ WF_vars(probe_test)

----------------------------------------------------------------------------
(* Properties of the training module *)

NonZero(rf) == rf[1] + rf[2] # 0

C2_AlternatesEveryOtherStep ==
    (ts.n >= 2 /\ ts.warmed_up /\ ts_prev.warmed_up)
        => /\ ts.gen # ts_prev.gen
           /\ ts.dis # ts_prev.dis
           /\ ts.gen # ts.dis
           /\ ts_prev.gen # ts_prev.dis

\* C3: while warmed_up is False every training_step steps the generator
\* optimizer and never the discriminator optimizer, the discriminator is not
\* invoked and loss_dis, loss_adv and feature_matching_distance are zero; in
\* every call exactly one of the two optimizers performs a step.
C3_ReconstructionOnlyPhase ==
    /\ (ts.n > 0 /\ ~ts.warmed_up)
         => /\ ts.gen
            /\ ~ts.dis
            /\ ~ts.disc_called
            /\ ts.loss_dis = 0
            /\ ts.loss_adv = 0
            /\ ts.fm = 0
    /\ ts.n > 0 => (ts.gen # ts.dis)

\* C3 witness: a training_step with an odd batch_idx ran while not warmed up.
C3_Witness == ts.n > 0 /\ ~ts.warmed_up /\ ts.batch_idx % 2 = 1

\* C4: once receptive_field holds a non-zero pair no later operation
\* recomputes or overwrites it.
C4_ReceptiveFieldFrozen ==
    [][NonZero(receptive_field)
         => /\ receptive_field' = receptive_field
            /\ probe_calls' = probe_calls]_vars

\* C4 witness: a validation epoch ended after the one that stored the pair.
C4_Witness == NonZero(receptive_field) /\ eval_number >= 2 /\ probe_calls = 1

\* C5 as stated: after the receptive field is non-zero every training batch
\* and every validation batch has x and y cropped before the distance is
\* computed.
C5_EveryBatchCropped ==
    /\ (ts.n > 0 /\ NonZero(ts.rf)) => (ts.cropped_x /\ ts.cropped_y)
    /\ (vs.n > 0 /\ NonZero(vs.rf)) => (vs.cropped_x /\ vs.cropped_y)

\* C5 amended: after the receptive field is non-zero every training batch
\* has x and y cropped by the receptive field when the valid_signal_crop
\* option is set and neither when it is unset; validation batches are never
\* cropped.
C5_TrainingCroppedWhenEnabled ==
    /\ (ts.n > 0 /\ NonZero(ts.rf) /\ valid_signal_crop)
         => /\ ts.cropped_x /\ ts.cropped_y
            /\ ts.crop_x = ts.rf /\ ts.crop_y = ts.rf
    /\ (ts.n > 0 /\ ~valid_signal_crop) => (~ts.cropped_x /\ ~ts.cropped_y)
    /\ vs.n > 0 => (~vs.cropped_x /\ ~vs.cropped_y)

\* C5 witness: a training batch and a validation batch were both processed
\* after the receptive field was stored, with cropping switched on.
C5_Witness ==
    /\ valid_signal_crop
    /\ ts.n > 0 /\ NonZero(ts.rf)
    /\ vs.n > 0 /\ NonZero(vs.rf)

\* C6: when the gradient at the extremes of the probe window never vanishes
\* get_rave_receptive_field ends with a fatal error after finitely many
\* doublings.
C6_LeakEndsInFatalError ==
    (pc \in {"probe", "probe_test"} /\ net_rf.leak) ~> (pc = "crashed")

----------------------------------------------------------------------------
(* ResidualVectorQuantize.forward applied to bounded inputs *)

IdleTrain ==
    /\ pc = "ready"
    /\ warmup = 0
    /\ valid_signal_crop = FALSE
    /\ saved_step = NoAttr
    /\ callback_attached = FALSE
    /\ epoch_len = 1
    /\ warmed_up = FALSE
    /\ training_steps = 0
    /\ cb_state_dict = NoStateDict
    /\ receptive_field = <<0, 0>>
    /\ batch_idx = 0
    /\ global_step = 0
    /\ fits = 0
    /\ eval_number = 0
    /\ val_out = 0
    /\ ts = NoStep
    /\ ts_prev = NoPrev
    /\ vs = NoVal
    /\ encoder = "Variational"
    /\ enc_warmed_up = FALSE
    /\ dec_warmed_up = FALSE
    /\ val_z = <<>>
    /\ latent_stats = InitialStats
    /\ net_rf = [leak |-> FALSE, left |-> 13, right |-> 7]
    /\ IdleProbe

InitRVQ ==
    /\ IdleTrain
    /\ IdleCD
    /\ IdleUnits
    /\ rvq_x \in [1..BatchSize -> (0 - MaxInput)..MaxInput]
    /\ rvq_training \in BOOLEAN
    /\ rvq_dynamic_masking \in BOOLEAN
    /\ mask_threshold = <<>>
    /\ rvq_ret = NotCalled

\* one call of ResidualVectorQuantize.forward(x); torch.randint(0,
\* num_quantizers, (x.shape[0],)) draws a threshold per batch element
rvq_forward ==
    /\ IF rvq_training /\ rvq_dynamic_masking
       THEN \E thr \in [1..BatchSize -> Stages] :
               /\ mask_threshold' = thr
               /\ rvq_ret' = forward(rvq_x, rvq_training,
                                     rvq_dynamic_masking, thr)
       ELSE /\ mask_threshold' = <<>>
            /\ rvq_ret' = forward(rvq_x, rvq_training, rvq_dynamic_masking,
                                  <<>>)
    /\ UNCHANGED <<rvq_x, rvq_training, rvq_dynamic_masking>>
    /\ UNCHANGED <<trainVars, probeVars, cdVars, unitVars>>

NextRVQ == rvq_forward

SpecRVQ == InitRVQ /\ [][NextRVQ]_vars

----------------------------------------------------------------------------
(* The block constructors applied to bounded delays *)

InitCD ==
    /\ IdleTrain
    /\ IdleRVQ
    /\ IdleUnits
    /\ cd_in \in [module : 0..MaxDelay, cumulative_delay : 0..MaxDelay,
                  ratio : 1..MaxRatio]
    /\ cd_out = [block |-> "none", cumulative_delay |-> 0,
                 branch_delays |-> <<>>]

\* Residual(module, cumulative_delay)
new_Residual ==
    /\ cd_out' = [block |-> "Residual",
                  cumulative_delay |->
                      Residual_cd(cd_in.module, cd_in.cumulative_delay),
                  branch_delays |-> Residual_branch_delays(cd_in.module)]
    /\ UNCHANGED <<cd_in, trainVars, probeVars, rvqVars, unitVars>>

\* ResidualLayer(dim, kernel_size, dilations, cumulative_delay), whose
\* CachedSequential of convolutions has delay cd_in.module
new_ResidualLayer ==
    /\ cd_out' = [block |-> "ResidualLayer",
                  cumulative_delay |->
                      ResidualLayer_cd(cd_in.module, cd_in.cumulative_delay),
                  branch_delays |-> Residual_branch_delays(cd_in.module)]
    /\ UNCHANGED <<cd_in, trainVars, probeVars, rvqVars, unitVars>>

\* UpsampleLayer(in_dim, out_dim, ratio, cumulative_delay), whose own net
\* has delay cd_in.module
new_UpsampleLayer ==
    /\ cd_out' = [block |-> "UpsampleLayer",
                  cumulative_delay |->
                      UpsampleLayer_cd(cd_in.module, cd_in.cumulative_delay,
                                       cd_in.ratio),
                  branch_delays |-> <<>>]
    /\ UNCHANGED <<cd_in, trainVars, probeVars, rvqVars, unitVars>>

NextCD ==
    \/ new_Residual
    \/ new_ResidualLayer
    \/ new_UpsampleLayer

SpecCD == InitCD /\ [][NextCD]_vars

----------------------------------------------------------------------------
(* Properties of the quantizer dropout *)

Masking == rvq_ret.called /\ rvq_training /\ rvq_dynamic_masking

\* sum of f(i) over the stages 0..t
RECURSIVE SumTo(_, _, _)
SumTo(Op(_, _), v, t) ==
    IF t < 0 THEN 0 ELSE Op(t, v) + SumTo(Op, v, t - 1)

\* C7: with training and dynamic masking on, for a batch element whose
\* threshold is 0 every stage but the first is zeroed in the quantized
\* output and contributes a loss of zero: the element's output is the first
\* stage's quantized vector and its loss the first stage's loss.
C7_ThresholdZeroKeepsFirstStage ==
    Masking =>
      \A b \in 1..BatchSize :
        mask_threshold[b] = 0 =>
          /\ \A i \in Stages \ {0} :
                /\ rvq_ret.q_stages[b][i] = 0
                /\ rvq_ret.l_stages[b][i] = 0
          /\ rvq_ret.quantized[b] = Quantize(0, rvq_x[b])
          /\ rvq_ret.losses[b].num =
                (Quantize(0, rvq_x[b]) - rvq_x[b])
                    * (Quantize(0, rvq_x[b]) - rvq_x[b]) * rvq_ret.losses[b].den

\* C7 witness: an element with threshold 0 whose later stages quantize to
\* non-zero values with non-zero losses.
C7_Witness ==
    /\ Masking
    /\ \E b \in 1..BatchSize :
          /\ mask_threshold[b] = 0
          /\ \E i \in Stages \ {0} :
                /\ StageQuantized(i, rvq_x[b]) # 0
                /\ StageLoss(i, rvq_x[b]) # 0

\* C8 as stated: for a batch element whose threshold is num_quantizers - 1
\* only the last stage is dropped (zeroed in output and loss) and all
\* earlier stages are kept.
C8_LastThresholdDropsLastStage ==
    Masking =>
      \A b \in 1..BatchSize :
        mask_threshold[b] = NumQuantizers - 1 =>
          /\ rvq_ret.mask[b][NumQuantizers - 1]
          /\ rvq_ret.q_stages[b][NumQuantizers - 1] = 0
          /\ rvq_ret.l_stages[b][NumQuantizers - 1] = 0
          /\ \A i \in Stages \ {NumQuantizers - 1} :
                /\ ~rvq_ret.mask[b][i]
                /\ rvq_ret.q_stages[b][i] = StageQuantized(i, rvq_x[b])
                /\ rvq_ret.l_stages[b][i] = StageLoss(i, rvq_x[b])

\* C8 amended: for a batch element whose threshold is num_quantizers - 1 no
\* stage is dropped: every stage, the last included, is kept in output and
\* loss, and the loss is divided by num_quantizers.
C8_LastThresholdKeepsAllStages ==
    Masking =>
      \A b \in 1..BatchSize :
        mask_threshold[b] = NumQuantizers - 1 =>
          /\ \A i \in Stages :
                /\ ~rvq_ret.mask[b][i]
                /\ rvq_ret.q_stages[b][i] = StageQuantized(i, rvq_x[b])
                /\ rvq_ret.l_stages[b][i] = StageLoss(i, rvq_x[b])
          /\ rvq_ret.quantized[b] =
                SumTo(StageQuantized, rvq_x[b], NumQuantizers - 1)
          /\ rvq_ret.losses[b].num =
                SumTo(StageLoss, rvq_x[b], NumQuantizers - 1)
          /\ rvq_ret.losses[b].den = NumQuantizers

\* C8 witness: an element with threshold num_quantizers - 1 whose last
\* stage quantizes to a non-zero value with a non-zero loss.
C8_Witness ==
    /\ Masking
    /\ \E b \in 1..BatchSize :
          /\ mask_threshold[b] = NumQuantizers - 1
          /\ StageQuantized(NumQuantizers - 1, rvq_x[b]) # 0
          /\ StageLoss(NumQuantizers - 1, rvq_x[b]) # 0

\* C9: dropout is per example: element b has its own threshold t_b in
\* [0, num_quantizers), its output is the sum of the stages i <= t_b and its
\* loss (sum of the stage losses i <= t_b) / (t_b + 1), whatever the
\* thresholds of the other elements; when not training or with dynamic
\* masking off all stages are summed and nothing is divided.
C9_PerExampleDropout ==
    rvq_ret.called =>
      \A b \in 1..BatchSize :
        IF rvq_training /\ rvq_dynamic_masking
        THEN /\ mask_threshold[b] \in Stages
             /\ rvq_ret.quantized[b] =
                   SumTo(StageQuantized, rvq_x[b], mask_threshold[b])
             /\ rvq_ret.losses[b].num * (mask_threshold[b] + 1) =
                   SumTo(StageLoss, rvq_x[b], mask_threshold[b])
                       * rvq_ret.losses[b].den
        ELSE /\ rvq_ret.quantized[b] =
                   SumTo(StageQuantized, rvq_x[b], NumQuantizers - 1)
             /\ rvq_ret.losses[b].num =
                   SumTo(StageLoss, rvq_x[b], NumQuantizers - 1)
             /\ rvq_ret.losses[b].den = 1

\* C9 witness: two elements with the same input drew different thresholds
\* and got different outputs.
C9_Witness ==
    /\ Masking
    /\ rvq_x[1] = rvq_x[2]
    /\ mask_threshold[1] # mask_threshold[2]
    /\ rvq_ret.quantized[1] # rvq_ret.quantized[2]

----------------------------------------------------------------------------
(* Properties of the delay bookkeeping *)

\* C10: Residual(module, cumulative_delay=c).cumulative_delay equals
\* module.cumulative_delay + c (the identity branch has delay 0, so the
\* aligned pair has delay max(d, 0) = d), and UpsampleLayer(..., ratio=r,
\* cumulative_delay=c).cumulative_delay equals the delay of its own net plus
\* c * r, for all non-negative delays and ratios r >= 1.
C10_DelayAdditive ==
    /\ cd_out.block \in {"Residual", "ResidualLayer"}
         => /\ cd_out.cumulative_delay = cd_in.module + cd_in.cumulative_delay
            /\ cd_out.branch_delays[2] = 0
            /\ Max(cd_out.branch_delays[1], cd_out.branch_delays[2])
                  = cd_in.module
    /\ cd_out.block = "UpsampleLayer"
         => cd_out.cumulative_delay =
                cd_in.module + cd_in.cumulative_delay * cd_in.ratio

\* C10 witness: an UpsampleLayer built with ratio > 1 on a non-zero incoming
\* delay.
C10_Witness ==
    /\ cd_out.block = "UpsampleLayer"
    /\ cd_in.ratio > 1
    /\ cd_in.cumulative_delay > 0
    /\ cd_in.module > 0

----------------------------------------------------------------------------
(* Properties of the bottleneck flags, the latent statistics and the probe *)

Detaching == encoder \in {"Variational", "Wasserstein"}

C17_StatsRecomputedEveryEpoch ==
    [][eval_number' = eval_number + 1
         => latent_stats' = [latent_mean |-> <<SeqSum(val_z), Len(val_z)>>,
                             latent_pca  |-> eval_number + 1,
                             fidelity    |-> eval_number + 1]]_vars

\* C17 amended: a validation_epoch_end with non-empty outputs recomputes
\* the three buffers from that epoch's latents when the model is not warmed
\* up and the encoder is a VariationalEncoder, and leaves them unchanged
\* otherwise.
C17_StatsRecomputedUntilWarmedUp ==
    [][eval_number' = eval_number + 1
         => IF ~warmed_up /\ encoder = "Variational"
            THEN latent_stats' =
                    [latent_mean |-> <<SeqSum(val_z), Len(val_z)>>,
                     latent_pca  |-> eval_number + 1,
                     fidelity    |-> eval_number + 1]
            ELSE latent_stats' = latent_stats]_vars

\* C17 witness: the second validation epoch recomputed the buffers.
C17_Witness ==
    /\ eval_number = 2
    /\ latent_stats.latent_pca = 2
    /\ latent_stats.fidelity = 2
    /\ latent_stats.latent_mean[2] > 0

----------------------------------------------------------------------------
(* Properties of the residual cascade *)

\* C19: stage i quantizes x minus the sum of the quantized outputs of the
\* stages 0..i-1, each stage's loss is measured against that stage's own
\* input, and with no dropout the returned quantized output plus the final
\* residual equals the input x.
C19_ResidualCascade ==
    rvq_ret.called =>
      \A b \in 1..BatchSize :
        /\ \A i \in Stages :
             LET inp == rvq_x[b] - SumStages(rvq_ret.quantized_list[b], i - 1)
                 q   == Quantize(i, inp)
             IN  /\ rvq_ret.quantized_list[b][i] = q
                 /\ rvq_ret.loss_list[b][i] = (q - inp) * (q - inp)
        /\ ~(rvq_training /\ rvq_dynamic_masking)
             => rvq_ret.quantized[b] + rvq_ret.residual[b] = rvq_x[b]

\* C19 witness: a call without dropout where a later stage quantizes a
\* non-zero residual and something is left over at the end.
C19_Witness ==
    /\ rvq_ret.called
    /\ ~(rvq_training /\ rvq_dynamic_masking)
    /\ \E b \in 1..BatchSize :
          /\ rvq_ret.quantized_list[b][0] # 0
          /\ rvq_ret.quantized_list[b][1] # 0
          /\ rvq_ret.residual[b] # 0

----------------------------------------------------------------------------
(* rave/blocks.py : GRU *)

\* nn.GRU, reduced to one hidden value per batch slot that takes GruMod
\* values: the state after one time step, which is also the output of that
\* step.
GruMod == 3
GruCell(x, h) == (2 * h + x + 1) % GruMod

\* self.gru(x, h0) on the time sequence of one batch element
RECURSIVE GruRun(_, _)
GruRun(xs, h) ==
    IF xs = <<>> THEN [out |-> <<>>, h |-> h]
    ELSE LET h1 == GruCell(Head(xs), h)
             r  == GruRun(Tail(xs), h1)
         IN  [out |-> <<h1>> \o r.out, h |-> r.h]

\* self.gru_state[:, :x.shape[0]] = state
GruWriteBackNone(state, B, new) == state
GruWriteBack(state, B, new) ==
    [s \in DOMAIN state |-> IF s < B THEN new[s] ELSE state[s]]

\* GRU.forward(x) with gru_state = state; batch element b uses slot b - 1
GRU_forward(x, state, enabled, USE_BUFFER_CONV) ==
    IF ~enabled THEN [out |-> x, state |-> state]
    ELSE IF USE_BUFFER_CONV
    THEN LET run == [b \in 1..Len(x) |-> GruRun(x[b], state[b - 1])]
         IN  [out   |-> [b \in 1..Len(x) |-> run[b].out],
              state |-> GruWriteBack(state, Len(x),
                                     [s \in 0..(Len(x) - 1) |-> run[s + 1].h])]
    ELSE [out   |-> [b \in 1..Len(x) |-> GruRun(x[b], 0).out],
          state |-> state]

InitGRU ==
    /\ IdleTrain /\ IdleRVQ /\ IdleCD
    /\ IdleFM /\ IdleCkpt /\ IdlePre /\ IdleDE /\ IdleFFT /\ IdleAux
    /\ gru_in \in [x : UNION { [1..b -> [1..GruLen -> 0..1]] :
                                 b \in 1..(GruSlots - 1) },
                   k : 1..(GruLen - 1),
                   enabled : BOOLEAN,
                   USE_BUFFER_CONV : BOOLEAN,
                   state0 : [0..(GruSlots - 1) -> 0..(GruMod - 1)]]
    /\ gru_state = gru_in.state0
    /\ gru_out = [calls |-> 0, out |-> <<>>]

\* The chunk handed over by call number c: x[..., :k], then x[..., k:]
GruChunk(x, k, c) ==
    [b \in 1..Len(x) |-> IF c = 0 THEN SubSeq(x[b], 1, k)
                         ELSE SubSeq(x[b], k + 1, Len(x[b]))]

\* one call of GRU.forward on the next chunk
gru_forward ==
    /\ gru_out.calls < 2
    /\ LET r == GRU_forward(GruChunk(gru_in.x, gru_in.k, gru_out.calls),
                            gru_state, gru_in.enabled,
                            gru_in.USE_BUFFER_CONV)
       IN  /\ gru_state' = r.state
           /\ gru_out' = [calls |-> gru_out.calls + 1,
                          out   |-> IF gru_out.calls = 0 THEN r.out
                                    ELSE [b \in 1..Len(gru_in.x) |->
                                            gru_out.out[b] \o r.out[b]]]
    /\ UNCHANGED <<gru_in, coreVars, fmVars, ckptVars, preVars, deVars,
                   fftVars, auxVars>>

NextGRU == gru_forward

SpecGRU == InitGRU /\ [][NextGRU]_vars

\* C11: in buffered mode with the GRU enabled, forward on x[:k] and then on
\* x[k:] returns outputs whose concatenation is the output of one call on x
\* from the same initial gru_state and leaves gru_state as that call would,
\* for every split point k; a call with batch size b reads and writes only
\* the state slots 0..b-1.
C11_GruStreamingEquivalence ==
    (gru_out.calls = 2 /\ gru_in.enabled /\ gru_in.USE_BUFFER_CONV) =>
        /\ \A b \in 1..Len(gru_in.x) :
              LET one == GruRun(gru_in.x[b], gru_in.state0[b - 1])
              IN  /\ gru_out.out[b] = one.out
                  /\ gru_state[b - 1] = one.h
        /\ \A s \in DOMAIN gru_state :
              s >= Len(gru_in.x) => gru_state[s] = gru_in.state0[s]

\* C11 witness: two chunked calls on a batch smaller than the buffer, from
\* a state that is not the initial one.
C11_Witness ==
    /\ gru_out.calls = 2 /\ gru_in.enabled /\ gru_in.USE_BUFFER_CONV
    /\ Len(gru_in.x) = GruSlots - 1
    /\ gru_in.state0[0] # 0
    /\ gru_in.state0[GruSlots - 1] # 0

----------------------------------------------------------------------------
(* rave/model.py : feature matching in RAVE.training_step *)

\* A feature map of the discriminator run on torch.cat([x, y], 0): the rows
\* of the true half followed by the rows of the fake half (one row each).
FeatureMaps == [1..2 -> 0..1]

\* torch.split(x, x.shape[0] // 2, 0) in split_features
split_true(m) == SubSeq(m, 1, Len(m) \div 2)
split_fake(m) == SubSeq(m, Len(m) \div 2 + 1, Len(m))

\* RAVE.split_features: per scale the true halves and the fake halves
split_features(features) ==
    [feature_true |-> [s \in 1..Len(features) |->
                         [j \in 1..Len(features[s]) |->
                            split_true(features[s][j])]],
     feature_fake |-> [s \in 1..Len(features) |->
                         [j \in 1..Len(features[s]) |->
                            split_fake(features[s][j])]]]

\* self.feature_matching_fun(true, fake): the L1 distance of the two halves
RECURSIVE feature_matching_fun(_, _)
feature_matching_fun(t, f) ==
    IF t = <<>> THEN 0
    ELSE Abs(Head(t) - Head(f)) + feature_matching_fun(Tail(t), Tail(f))

\* scale_true[self.num_skipped_features:]
SkipNone(scale, n) == scale
Skip(scale, n) == SubSeq(scale, n + 1, Len(scale))

\* sum(map(self.feature_matching_fun, trues, fakes))
RECURSIVE SumDistances(_, _)
SumDistances(trues, fakes) ==
    IF trues = <<>> THEN 0
    ELSE feature_matching_fun(Head(trues), Head(fakes))
           + SumDistances(Tail(trues), Tail(fakes))

\* fractions num / den
RatAdd(a, b) == [num |-> a.num * b.den + b.num * a.den, den |-> a.den * b.den]
RatEq(a, b) == a.num * b.den = b.num * a.den

\* "for scale_true, scale_fake in zip(feature_true, feature_fake)": the
\* running feature_matching_distance after the scales s..
RECURSIVE FmLoop(_, _, _, _)
FmLoop(feature_true, feature_fake, skipped, acc) ==
    IF feature_true = <<>> THEN acc
    ELSE LET scale_true == Skip(Head(feature_true), skipped)
             scale_fake == Skip(Head(feature_fake), skipped)
             current_feature_distance ==
                 [num |-> SumDistances(scale_true, scale_fake),
                  den |-> Len(scale_true)]
         IN  FmLoop(Tail(feature_true), Tail(feature_fake), skipped,
                    RatAdd(acc, current_feature_distance))

\* The discrimination branch of training_step, from split_features to
\* "feature_matching_distance / len(feature_true)".  A scale with no map
\* left after the skip divides by len(...) = 0: ZeroDivisionError.
feature_matching(features, skipped) ==
    LET sp == split_features(features)
    IN  IF \E s \in 1..Len(features) : Len(features[s]) <= skipped
        THEN [called |-> TRUE, error |-> TRUE, num |-> 0, den |-> 1]
        ELSE LET total == FmLoop(sp.feature_true, sp.feature_fake, skipped,
                                 [num |-> 0, den |-> 1])
             IN  [called |-> TRUE, error |-> FALSE, num |-> total.num,
                  den |-> total.den * Len(sp.feature_true)]

SeqsUpTo(S, n) == UNION { [1..m -> S] : m \in 1..n }

InitFM ==
    /\ IdleTrain /\ IdleRVQ /\ IdleCD
    /\ IdleGRU /\ IdleCkpt /\ IdlePre /\ IdleDE /\ IdleFFT /\ IdleAux
    /\ fm_in \in [features : SeqsUpTo(SeqsUpTo(FeatureMaps, FmMaps), FmScales),
                  num_skipped_features : 0..(FmMaps - 1)]
    /\ fm_out = [called |-> FALSE]

\* the discrimination branch runs on the features
fm_training_step ==
    /\ ~fm_out.called
    /\ fm_out' = feature_matching(fm_in.features, fm_in.num_skipped_features)
    /\ UNCHANGED <<fm_in, coreVars, gruVars, ckptVars, preVars, deVars,
                   fftVars, auxVars>>

NextFM == fm_training_step

SpecFM == InitFM /\ [][NextFM]_vars

\* distance of the true and fake halves of map j of scale s
MapDistance(s, j) ==
    LET m == fm_in.features[s][j]
    IN  feature_matching_fun(SubSeq(m, 1, Len(m) \div 2),
                             SubSeq(m, Len(m) \div 2 + 1, Len(m)))

\* sum of the distances of the maps from..to of scale s
RECURSIVE DistancesOf(_, _, _)
DistancesOf(s, from, to) ==
    IF from > to THEN 0
    ELSE MapDistance(s, to) + DistancesOf(s, from, to - 1)

\* sum over the scales 1..s of the averages over the maps that remain
RECURSIVE ScaleAverages(_)
ScaleAverages(s) ==
    IF s = 0 THEN [num |-> 0, den |-> 1]
    ELSE RatAdd(ScaleAverages(s - 1),
                [num |-> DistancesOf(s, fm_in.num_skipped_features + 1,
                                     Len(fm_in.features[s])),
                 den |-> Len(fm_in.features[s])
                           - fm_in.num_skipped_features])

\* sum over the scales 1..s of the distances of their last two maps
RECURSIVE LastTwo(_)
LastTwo(s) ==
    IF s = 0 THEN 0
    ELSE LastTwo(s - 1) + DistancesOf(s, Len(fm_in.features[s]) - 1,
                                      Len(fm_in.features[s]))

\* C12: the feature-matching loss skips the first num_skipped_features maps
\* of every scale, averages the distances over exactly the remaining maps
\* of that scale and then averages over the number of scales; with
\* num_skipped_features = 1 and 3 maps per scale only the last 2 maps of
\* each scale are averaged.
C12_FeatureMatchingSkips ==
    (fm_out.called /\ ~fm_out.error) =>
        LET S == Len(fm_in.features)
            ref == ScaleAverages(S)
        IN  /\ RatEq([num |-> fm_out.num, den |-> fm_out.den],
                     [num |-> ref.num, den |-> ref.den * S])
            /\ (/\ fm_in.num_skipped_features = 1
                /\ \A s \in 1..S : Len(fm_in.features[s]) = 3)
                 => fm_out.num * 2 * S = LastTwo(S) * fm_out.den

\* C12 witness: one map skipped on two scales of three maps each, the
\* skipped maps being the only ones of their scale with a distance.
C12_Witness ==
    /\ fm_out.called /\ ~fm_out.error
    /\ fm_in.num_skipped_features = 1
    /\ Len(fm_in.features) = 2
    /\ \A s \in 1..2 : /\ Len(fm_in.features[s]) = 3
                       /\ MapDistance(s, 1) # 0
    /\ MapDistance(1, 2) = 0 /\ MapDistance(1, 3) # 0
    /\ fm_out.num # 0

----------------------------------------------------------------------------
(* rave/core.py : fft_convolve *)

Zeros(n) == [i \in 1..n |-> 0]

\* nn.functional.pad(signal, (0, signal.shape[-1]))
pad_right(x) == x \o Zeros(Len(x))

\* nn.functional.pad(kernel, (kernel.shape[-1], 0))
pad_left(x) == Zeros(Len(x)) \o x

\* sum of a[i] * b[(n - i) mod N] over the samples 1..i (b is 1-indexed,
\* sample number n - i mod N is b[((n - i) % N) + 1])
RECURSIVE CircularTerm(_, _, _, _)
CircularTerm(a, b, n, i) ==
    IF i = 0 THEN 0
    ELSE a[i] * b[((n - i) % Len(a)) + 1] + CircularTerm(a, b, n, i - 1)

\* fft.irfft(fft.rfft(signal) * fft.rfft(kernel)): the product of the
\* spectra is the circular convolution of the two (even-length) sequences
irfft_rfft_product(a, b) ==
    [n \in 1..Len(a) |-> CircularTerm(a, b, n, Len(a))]

\* output[..., output.shape[-1] // 2:]
second_half(x) == SubSeq(x, Len(x) \div 2 + 1, Len(x))

fft_convolve_pad_right(signal, kernel) ==
    second_half(irfft_rfft_product(pad_right(signal), pad_right(kernel)))
fft_convolve(signal, kernel) ==
    second_half(irfft_rfft_product(pad_right(signal), pad_left(kernel)))

Samples == -1..1

InitFFT ==
    /\ IdleTrain /\ IdleRVQ /\ IdleCD
    /\ IdleGRU /\ IdleFM /\ IdleCkpt /\ IdlePre /\ IdleDE /\ IdleAux
    /\ \E L \in 1..FftLen :
         fft_in \in [signal : [1..L -> Samples], kernel : [1..L -> Samples]]
    /\ fft_out = [called |-> FALSE]

\* one call of fft_convolve
call_fft_convolve ==
    /\ ~fft_out.called
    /\ fft_out' = [called |-> TRUE,
                   output |-> fft_convolve(fft_in.signal, fft_in.kernel)]
    /\ UNCHANGED <<fft_in, coreVars, gruVars, fmVars, ckptVars, preVars,
                   deVars, auxVars>>

NextFFT == call_fft_convolve

SpecFFT == InitFFT /\ [][NextFFT]_vars

\* sum over i in 1..i of signal[i] * kernel[m - i + 1]
RECURSIVE CausalTerm(_, _)
CausalTerm(m, i) ==
    IF i = 0 THEN 0
    ELSE fft_in.signal[i] * fft_in.kernel[m - i + 1] + CausalTerm(m, i - 1)

\* C20: on two length-L sequences fft_convolve returns L samples, sample m
\* being the causal linear convolution sum over i <= m of
\* signal[i] * kernel[m - i]; no wrap-around term of the circular product
\* reaches the returned half.
C20_CausalLinearConvolution ==
    fft_out.called =>
        /\ Len(fft_out.output) = Len(fft_in.signal)
        /\ \A m \in 1..Len(fft_in.signal) :
             fft_out.output[m] = CausalTerm(m, m)

\* C20 witness: full-length sequences whose late samples would wrap around
\* in an unpadded circular product, convolved to a nonzero last sample.
C20_Witness ==
    /\ fft_out.called
    /\ Len(fft_in.signal) = FftLen
    /\ fft_in.signal[FftLen] # 0 /\ fft_in.kernel[FftLen] # 0
    /\ fft_in.signal[1] # 0 /\ fft_in.kernel[1] # 0
    /\ fft_out.output[FftLen] # 0

----------------------------------------------------------------------------
(* rave/blocks.py : DiscreteEncoder.reparametrize *)

\* "if self.enabled:" on the registered buffer
enabled_ignored(enabled) == TRUE
enabled_switch(enabled) == enabled

\* torch.randn_like(q) scaled by the positive noise_amp: one draw per
\* batch element
Noises == [1..DeBatch -> -1..1]

\* DiscreteEncoder.add_noise_to_vector
add_noise_to_vector(q, noise) == [b \in DOMAIN q |-> q[b] + noise[b]]

\* commmitment.mean() and torch.zeros_like(z).mean(): the sum over the
\* batch divided by its size (every commitment has denominator den)
RECURSIVE SumNums(_, _)
SumNums(l, b) == IF b = 0 THEN 0 ELSE l[b].num + SumNums(l, b - 1)

\* DiscreteEncoder.reparametrize(z).  The VectorQuantize layers of self.rvq
\* update their codebooks on every forward in training mode: codebook is
\* the number of such updates since construction.
reparametrize(z, enabled, training, dynamic_masking, thr, noise, codebook) ==
    IF enabled_switch(enabled)
    THEN LET r == forward(z, training, dynamic_masking, thr)
         IN  [q |-> add_noise_to_vector(r.quantized, noise),
              reg |-> [num |-> SumNums(r.losses, Len(z)),
                       den |-> r.losses[1].den * Len(z)],
              rvq_called |-> TRUE, noise_added |-> TRUE,
              codebook |-> IF training THEN codebook + NumQuantizers
                           ELSE codebook]
    ELSE [q |-> z,
          reg |-> [num |-> SeqSum([b \in DOMAIN z |-> 0]), den |-> Len(z)],
          rvq_called |-> FALSE, noise_added |-> FALSE,
          codebook |-> codebook]

\* The enabled buffer is 0 after construction and part of the state_dict,
\* so a restored checkpoint can hold either value.
InitDE ==
    /\ IdleTrain /\ IdleRVQ /\ IdleCD
    /\ IdleGRU /\ IdleFM /\ IdleCkpt /\ IdlePre /\ IdleFFT /\ IdleAux
    /\ de_in \in [enabled : BOOLEAN, training : BOOLEAN,
                  dynamic_masking : BOOLEAN,
                  z : [1..DeBatch -> (0 - MaxInput)..MaxInput]]
    /\ de_codebook = 0
    /\ de_out = [calls |-> 0]

\* the thresholds self.rvq draws when it masks (they are not read without
\* masking)
Thresholds(training, dynamic_masking) ==
    IF training /\ dynamic_masking THEN [1..DeBatch -> Stages] ELSE {<<>>}

\* the call of reparametrize(z)
de_reparametrize ==
    /\ de_out.calls = 0
    /\ \E noise \in Noises,
          thr \in Thresholds(de_in.training, de_in.dynamic_masking) :
         /\ LET r == reparametrize(de_in.z, de_in.enabled, de_in.training,
                                   de_in.dynamic_masking, thr, noise,
                                   de_codebook)
            IN  /\ de_codebook' = r.codebook
                /\ de_out' = [calls |-> de_out.calls + 1, q |-> r.q,
                              reg |-> r.reg,
                              rvq_called |-> r.rvq_called,
                              noise_added |-> r.noise_added]
    /\ UNCHANGED <<de_in, coreVars, gruVars, fmVars, ckptVars, preVars,
                   fftVars, auxVars>>

NextDE == de_reparametrize

SpecDE == InitDE /\ [][NextDE]_vars

\* C15: with the enabled switch off, reparametrize returns its input z
\* unchanged and a regularization of exactly 0, does not call the residual
\* quantizer, adds no noise and leaves the codebooks as they were.
C15_DisabledIsPassthrough ==
    (de_out.calls > 0 /\ ~de_in.enabled) =>
        /\ de_out.q = de_in.z
        /\ de_out.reg.num = 0 /\ de_out.reg.den # 0
        /\ ~de_out.rvq_called
        /\ ~de_out.noise_added
        /\ de_codebook = 0

\* C15 witness: a call in training mode with the switch off, on an input
\* that lies on no codebook entry.
C15_Witness ==
    /\ de_out.calls = 1
    /\ ~de_in.enabled /\ de_in.training /\ de_in.dynamic_masking
    /\ \A b \in 1..DeBatch : de_in.z[b] % 2 = 1
    /\ de_out.q = de_in.z

----------------------------------------------------------------------------
(* train_rave.py : resuming from a checkpoint *)

\* names of the model's own parameters and buffers; the checkpoint may
\* hold one more name the model does not have
ModelKeys == 1..CkptKeys
CkptNames == 1..(CkptKeys + 1)

\* what loaded_run['state_dict'] holds under a name
Entries == {"absent", "same_shape", "other_shape"}

\* Module.load_state_dict(state_dict, strict=False): a tensor of the right
\* shape is copied in, a missing or unexpected name is skipped
load_into(params, state_dict) ==
    [k \in ModelKeys |-> IF state_dict[k] = "same_shape" THEN "ckpt"
                         ELSE params[k]]

\* ... and a tensor of another shape under a name of the model raises
\* RuntimeError once the others are copied
raises_RuntimeError(state_dict) ==
    \E k \in ModelKeys : state_dict[k] = "other_shape"

\* "model = model.load_state_dict(...)": the name model is bound to what
\* load_state_dict returns, its record of missing and unexpected keys
rebind(returned) == returned

InitCkpt ==
    /\ IdleTrain /\ IdleRVQ /\ IdleCD
    /\ IdleGRU /\ IdleFM /\ IdlePre /\ IdleDE /\ IdleFFT /\ IdleAux
    /\ \/ ckpt_in = [run |-> "none", state_dict |-> <<>>]
       \/ \E g \in 0..CkptSteps :
            ckpt_in = [run |-> "unreadable", state_dict |-> <<>>,
                       global_step |-> g]
       \/ \E g \in 0..CkptSteps, sd \in [CkptNames -> Entries] :
            ckpt_in = [run |-> "found", state_dict |-> sd, global_step |-> g]
    /\ script = [pc |-> "search_for_run", model |-> "RAVE",
                 params |-> [k \in ModelKeys |-> "init"],
                 batches_that_stepped |-> 0, fit |-> "none"]

\* run = rave.core.search_for_run(args.CKPT); if run is not None:
search_for_run ==
    /\ script.pc = "search_for_run"
    /\ script' = [script EXCEPT !.pc = IF ckpt_in.run = "none"
                                       THEN "fit" ELSE "torch_load"]
    /\ UNCHANGED <<ckpt_in, coreVars, gruVars, fmVars, preVars, deVars,
                   fftVars, auxVars>>

\* loaded_run = torch.load(run, map_location='cpu') and the assignment of
\* _batches_that_stepped; an unreadable file raises out of the script
torch_load ==
    /\ script.pc = "torch_load"
    /\ script' = IF ckpt_in.run = "unreadable"
                 THEN [script EXCEPT !.pc = "crashed"]
                 ELSE [script EXCEPT !.pc = "load_state_dict",
                          !.batches_that_stepped = ckpt_in.global_step]
    /\ UNCHANGED <<ckpt_in, coreVars, gruVars, fmVars, preVars, deVars,
                   fftVars, auxVars>>

\* try: model = model.load_state_dict(loaded_run['state_dict'],
\* strict=False) except RuntimeError: pass
load_state_dict ==
    /\ script.pc = "load_state_dict"
    /\ script' = [script EXCEPT
                    !.pc = "fit",
                    !.params = load_into(script.params, ckpt_in.state_dict),
                    !.model = IF raises_RuntimeError(ckpt_in.state_dict)
                              THEN script.model
                              ELSE rebind("IncompatibleKeys")]
    /\ UNCHANGED <<ckpt_in, coreVars, gruVars, fmVars, preVars, deVars,
                   fftVars, auxVars>>

\* trainer.fit(model, train, val)
trainer_fit ==
    /\ script.pc = "fit"
    /\ script' = [script EXCEPT !.pc = "fitting", !.fit = script.model]
    /\ UNCHANGED <<ckpt_in, coreVars, gruVars, fmVars, preVars, deVars,
                   fftVars, auxVars>>

NextCkpt == search_for_run \/ torch_load \/ load_state_dict \/ trainer_fit

SpecCkpt == InitCkpt /\ [][NextCkpt]_vars

\* C13: whether load_state_dict succeeds (missing and extra keys skipped)
\* or raises RuntimeError, the object passed to trainer.fit is the RAVE
\* model itself, carrying the checkpoint's values for the matched keys and
\* its own initial values for the others.
C13_FitGetsTheModel ==
    (script.pc = "fitting" /\ ckpt_in.run = "found") =>
        /\ script.fit = "RAVE"
        /\ \A k \in ModelKeys :
             script.params[k] = IF ckpt_in.state_dict[k] = "same_shape"
                                THEN "ckpt" ELSE "init"

----------------------------------------------------------------------------
(* rave/core.py : simple_audio_preprocess *)

\* the files preprocess can be given: audio of some channels and samples,
\* a file the loader cannot read, and a load interrupted from the keyboard
Files ==
    [kind : {"audio"}, channels : 1..PreChannels, samples : 0..PreSamples]
      \cup {[kind |-> "unreadable", channels |-> 0, samples |-> 0],
            [kind |-> "interrupted", channels |-> 0, samples |-> 0]}

\* x.shape after li.load(name, mono=False, sr=sampling_rate): librosa
\* returns an array of shape (samples,) for a file of one channel and of
\* shape (channels, samples) for a file of several
li_load(file) ==
    IF file.channels = 1 THEN <<file.samples>>
    ELSE <<file.channels, file.samples>>

\* np.repeat(x, n_channels, axis=0)
np_repeat(shape, n) == [shape EXCEPT ![1] = shape[1] * n]

\* the channel test of preprocess on x.shape: the shape it continues
\* with, or the ValueError it raises
channel_check(shape, n_channels) ==
    IF n_channels # shape[1]
    THEN IF shape[1] = 1
         THEN [raised |-> FALSE, shape |-> np_repeat(shape, n_channels)]
         ELSE [raised |-> TRUE, shape |-> shape]
    ELSE [raised |-> FALSE, shape |-> shape]

\* "if crop: ... else: ..." on x.shape[1]
crop_or_pad(samples, crop, N) ==
    IF crop THEN samples - (samples % N)
    ELSE samples + ((N - (samples % N)) % N)

None == [called |-> TRUE, result |-> "None", reported |-> TRUE,
         shape |-> <<>>]

\* the rest of preprocess once the array is loaded and has passed the
\* channel test, kept samples being what the silence trimming leaves
after_load(shape, kept, trim_silence, crop, N) ==
    IF trim_silence /\ (Len(shape) < 2 \/ kept = 0)
    THEN None            \* x[:, ...] or np.concatenate([]) raises: caught
    ELSE IF Len(shape) < 2
    THEN [called |-> TRUE, result |-> "IndexError", reported |-> FALSE,
          shape |-> <<>>]                          \* x.shape[1]
    ELSE LET samples == crop_or_pad(IF trim_silence THEN kept ELSE shape[2],
                                    crop, N)
         IN  IF samples = 0
             THEN [None EXCEPT !.reported = FALSE]
             ELSE [called |-> TRUE, result |-> "array", reported |-> FALSE,
                   shape |-> <<samples \div N, shape[1], N>>]

\* simple_audio_preprocess(...).preprocess(name)
preprocess_result(file, n_channels, kept, trim_silence, crop, N) ==
    IF file.kind = "interrupted"
    THEN [called |-> TRUE, result |-> "exit", reported |-> FALSE,
          shape |-> <<>>]
    ELSE IF file.kind = "unreadable" THEN None
    ELSE LET c == channel_check(li_load(file), n_channels)
         IN  IF c.raised THEN None
             ELSE after_load(c.shape, kept, trim_silence, crop, N)

InitPre ==
    /\ IdleTrain /\ IdleRVQ /\ IdleCD
    /\ IdleGRU /\ IdleFM /\ IdleCkpt /\ IdleDE /\ IdleFFT /\ IdleAux
    /\ pre_in \in [file : Files, n_channels : 1..PreChannels, N : 1..PreN,
                   crop : BOOLEAN, trim_silence : BOOLEAN]
    /\ pre_out = [called |-> FALSE]

\* one call of preprocess(name); li.effects.split keeps some of the
\* samples, possibly none
preprocess ==
    /\ ~pre_out.called
    /\ \E kept \in 0..pre_in.file.samples :
         /\ pre_in.trim_silence \/ kept = pre_in.file.samples
         /\ pre_out' = preprocess_result(pre_in.file, pre_in.n_channels, kept,
                                         pre_in.trim_silence, pre_in.crop,
                                         pre_in.N)
    /\ UNCHANGED <<pre_in, coreVars, gruVars, fmVars, ckptVars, deVars,
                   fftVars, auxVars>>

NextPre == preprocess

SpecPre == InitPre /\ [][NextPre]_vars

\* C14: a file whose channel count differs from n_channels and is not 1 is
\* reported and skipped (preprocess returns None, nothing is raised to the
\* caller); a 1-channel file is replicated to n_channels channels; any
\* other load exception also yields None; only KeyboardInterrupt ends the
\* run.
C14_ChannelMismatchSkipped ==
    pre_out.called =>
        LET f == pre_in.file
        IN  /\ (f.kind = "audio" /\ f.channels # pre_in.n_channels
                  /\ f.channels # 1)
                 => (pre_out.result = "None" /\ pre_out.reported)
            /\ (f.kind = "audio" /\ f.channels = 1 /\ f.samples > 0
                  /\ ~pre_in.trim_silence /\ ~pre_in.crop)
                 => (/\ pre_out.result = "array"
                     /\ pre_out.shape[2] = pre_in.n_channels)
            /\ f.kind = "unreadable" => pre_out.result = "None"
            /\ pre_out.result = "exit" <=> f.kind = "interrupted"
            /\ pre_out.result \in {"None", "array", "exit"}

----------------------------------------------------------------------------
(* rave/blocks.py : DilatedUnit as built by EncoderV2 and GeneratorV2 *)

\* cc.get_padding(kernel_size, dilation=...), centered: the samples of
\* padding on the left and on the right
get_padding(kernel_size, dilation) ==
    IF kernel_size = 1 THEN <<0, 0>>
    ELSE LET p == (kernel_size - 1) * dilation + 1
         IN  <<p \div 2, p \div 2>>

\* cc.Conv1d(dim, dim, kernel_size=..., padding=..., dilation=...): what
\* the layer is built with and the samples one output sample reads
Conv1d(kernel_size, padding, dilation) ==
    [kernel_size |-> kernel_size, padding |-> padding, dilation |-> dilation,
     receptive_field |-> (kernel_size - 1) * dilation + 1]

\* DilatedUnit.__init__(dim, kernel_size, dilation), net[1]: the layer is
\* given kernel_size and padding=cc.get_padding(kernel_size) and no
\* dilation, so both take the default dilation of 1
DilatedUnit(kernel_size, dilation) ==
    Conv1d(kernel_size, get_padding(kernel_size, 1), 1)

KernelSizes == { 2 * i + 1 : i \in 1..DuKernels }

InitDU ==
    /\ IdleTrain /\ IdleRVQ /\ IdleCD
    /\ IdleGRU /\ IdleFM /\ IdleCkpt /\ IdlePre /\ IdleDE /\ IdleFFT
    /\ IdleCrop /\ IdleChunk
    /\ du_in \in [kernel_size : KernelSizes,
                  dilations : SeqsUpTo(1..MaxDilation, DuUnits)]
    /\ du_net = <<>>

\* one turn of "for d in dilations: net.append(Residual(DilatedUnit(
\* dim=num_channels, kernel_size=kernel_size, dilation=d)))"
append_DilatedUnit ==
    /\ Len(du_net) < Len(du_in.dilations)
    /\ LET d == du_in.dilations[Len(du_net) + 1]
       IN  du_net' = Append(du_net,
                            [d |-> d,
                             conv |-> DilatedUnit(du_in.kernel_size, d)])
    /\ UNCHANGED <<du_in, coreVars, gruVars, fmVars, ckptVars, preVars,
                   deVars, fftVars, cropVars, chunkVars>>

NextDU == append_DilatedUnit

SpecDU == InitDU /\ [][NextDU]_vars

\* C21: for every d of the dilations list the first convolution of
\* DilatedUnit(dim, kernel_size, dilation=d) has dilation d and the padding
\* computed for dilation d, so that units built with different d (and a
\* kernel wider than 1) have different receptive fields.
C21_UnitsApplyTheirDilation ==
    /\ \A i \in 1..Len(du_net) :
         /\ du_net[i].conv.dilation = du_net[i].d
         /\ du_net[i].conv.padding
              = get_padding(du_in.kernel_size, du_net[i].d)
    /\ \A i, j \in 1..Len(du_net) :
         (du_net[i].d # du_net[j].d /\ du_in.kernel_size > 1)
           => du_net[i].conv.receptive_field
                # du_net[j].conv.receptive_field

----------------------------------------------------------------------------
(* rave/core.py : valid_signal_crop *)

\* Python's a // b for b > 0: the quotient rounded towards minus infinity
floordiv(a, b) ==
    IF a >= 0 THEN a \div b ELSE 0 - ((b - 1 - a) \div b)

\* x[..., a:] for a >= 0
slice_from(x, a) == SubSeq(x, Min(a, Len(x)) + 1, Len(x))

\* x[..., :b] for b < 0
slice_to(x, b) == SubSeq(x, 1, Max(Len(x) + b, 0))

\* valid_signal_crop(x, left_rf, right_rf) along the last axis of x;
\* "-right_rf.item() // dim" negates first and divides after
valid_signal_crop_fn(x, dim, left_rf, right_rf) ==
    LET x1 == slice_from(x, floordiv(left_rf, dim))
    IN  IF right_rf # 0
        THEN slice_to(x1, floordiv(0 - right_rf, dim))
        ELSE x1

\* x holds the positions 1..T of its samples
InitCrop ==
    /\ IdleTrain /\ IdleRVQ /\ IdleCD
    /\ IdleGRU /\ IdleFM /\ IdleCkpt /\ IdlePre /\ IdleDE /\ IdleFFT
    /\ IdleDU /\ IdleChunk
    /\ \E T \in 0..CropT :
         crop_in \in [x : {[t \in 1..T |-> t]}, dim : 1..CropDim,
                      left_rf : 0..CropRf, right_rf : 0..CropRf]
    /\ crop_out = [called |-> FALSE]

\* one call of valid_signal_crop
call_valid_signal_crop ==
    /\ ~crop_out.called
    /\ crop_out' = [called |-> TRUE,
                    x |-> valid_signal_crop_fn(crop_in.x, crop_in.dim,
                                               crop_in.left_rf,
                                               crop_in.right_rf)]
    /\ UNCHANGED <<crop_in, coreVars, gruVars, fmVars, ckptVars, preVars,
                   deVars, fftVars, duVars, chunkVars>>

NextCrop == call_valid_signal_crop

SpecCrop == InitCrop /\ [][NextCrop]_vars

\* C22: valid_signal_crop removes exactly left_rf // dim samples from the
\* start and right_rf // dim samples from the end (none when right_rf is
\* 0): of T samples, T - left_rf // dim - right_rf // dim remain, for all
\* non-negative left_rf and right_rf that leave samples to remove.
C22_CropsFloorOnBothSides ==
    LET T == Len(crop_in.x)
        l == crop_in.left_rf \div crop_in.dim
        r == crop_in.right_rf \div crop_in.dim
    IN  (crop_out.called /\ T >= crop_in.left_rf + crop_in.right_rf) =>
            /\ Len(crop_out.x) = T - l - r
            /\ crop_out.x = SubSeq(crop_in.x, l + 1, T - r)

----------------------------------------------------------------------------
(* rave/core.py : cropping, padding and chunking in preprocess *)

\* the sample of channel c at time t, and a sample np.pad adds
Sample(c, t) == <<c, t>>
Pad == <<0, 0>>

\* "x = x[:, :-crop_size]" when crop_size is not 0
crop_samples(x, N) ==
    LET T == Len(x[1])
    IN  [c \in DOMAIN x |-> SubSeq(x[c], 1, T - (T % N))]

\* "x = np.pad(x, ((0, 0), (0, pad)))"
pad_samples(x, N) ==
    LET T == Len(x[1])
        pad == (N - (T % N)) % N
    IN  [c \in DOMAIN x |-> x[c] \o [t \in 1..pad |-> Pad]]

\* x.reshape(...) reads the array in row-major order: first all of
\* channel 0, then all of channel 1, ...
flatten(x) ==
    LET T == Len(x[1])
    IN  [f \in 1..(Len(x) * T) |-> x[((f - 1) \div T) + 1][((f - 1) % T) + 1]]

\* x.reshape(-1, x.shape[0], N)
reshape_chunks(x, N) ==
    LET C == Len(x)
        flat == flatten(x)
    IN  [i \in 1..(Len(flat) \div (C * N)) |->
           [c \in 1..C |->
              [t \in 1..N |-> flat[(i - 1) * C * N + (c - 1) * N + t]]]]

\* preprocess from "if crop:" to its return, x being the loaded array
chunk(x, N, crop) ==
    LET y == IF crop THEN crop_samples(x, N) ELSE pad_samples(x, N)
    IN  IF Len(y[1]) = 0
        THEN [called |-> TRUE, result |-> "None", out |-> <<>>]
        ELSE [called |-> TRUE, result |-> "array",
              out |-> reshape_chunks(y, N)]

InitChunk ==
    /\ IdleTrain /\ IdleRVQ /\ IdleCD
    /\ IdleGRU /\ IdleFM /\ IdleCkpt /\ IdlePre /\ IdleDE /\ IdleFFT
    /\ IdleDU /\ IdleCrop
    /\ \E C \in 1..ChunkChannels, T \in 0..ChunkSamples :
         chunk_in \in [x : {[c \in 1..C |-> [t \in 1..T |-> Sample(c, t)]]},
                       N : 1..ChunkN, crop : BOOLEAN]
    /\ chunk_out = [called |-> FALSE]

\* one call of preprocess on a file that loads to x
preprocess_chunks ==
    /\ ~chunk_out.called
    /\ chunk_out' = chunk(chunk_in.x, chunk_in.N, chunk_in.crop)
    /\ UNCHANGED <<chunk_in, coreVars, gruVars, fmVars, ckptVars, preVars,
                   deVars, fftVars, duVars, cropVars>>

NextChunk == preprocess_chunks

SpecChunk == InitChunk /\ [][NextChunk]_vars

\* C25: for a loaded x of C channels and T samples preprocess returns M
\* chunks of C channels and N samples, M = floor(T / N) with crop and
\* ceil(T / N) (zero-padded at the end) without, None when no sample
\* remains, and chunk i, channel c holds consecutive samples of that same
\* channel: out[i][c][t] = x[c][i * N + t].
C25_ChunksKeepChannels ==
    chunk_out.called =>
        LET C == Len(chunk_in.x)
            T == Len(chunk_in.x[1])
            N == chunk_in.N
            M == IF chunk_in.crop THEN T \div N ELSE (T + N - 1) \div N
        IN  IF M = 0 THEN chunk_out.result = "None"
            ELSE /\ chunk_out.result = "array"
                 /\ Len(chunk_out.out) = M
                 /\ \A i \in 1..M :
                      /\ Len(chunk_out.out[i]) = C
                      /\ \A c \in 1..C :
                           /\ Len(chunk_out.out[i][c]) = N
                           /\ \A t \in 1..N :
                                chunk_out.out[i][c][t]
                                  = IF (i - 1) * N + t <= T
                                    THEN Sample(c, (i - 1) * N + t)
                                    ELSE Pad

----------------------------------------------------------------------------
(* Properties of WarmupCallback and of the run train_rave.py launches *)

\* C23: with a WarmupCallback attached, its counter starting at 0 and
\* training starting not warmed up, the counter goes up by exactly 1 per
\* training batch, also across state_dict / load_state_dict, and batch k
\* (counted from 0) is processed by training_step with
\* warmed_up = (k >= warmup).
C23_WarmupSchedule ==
    (callback_attached /\ saved_step # NoAttr /\ saved_step <= warmup) =>
        /\ training_steps = global_step + (IF pc = "batch" THEN 1 ELSE 0)
        /\ ts.n > 0 => ts.warmed_up = (global_step - 1 >= warmup)

\* C23 witness: the first warmed-up batch follows a batch that was not,
\* the counter having gone through state_dict and load_state_dict on the
\* way.
C23_Witness ==
    /\ callback_attached /\ saved_step # NoAttr /\ saved_step <= warmup
    /\ pc = "loop"
    /\ ts.warmed_up /\ ts_prev.n > 0 /\ ~ts_prev.warmed_up
    /\ cb_state_dict.saved
    /\ warmup > 0
    /\ global_step = warmup + 1
    /\ training_steps = warmup + 1

\* C24: in the run train_rave.py launches, which attaches no
\* WarmupCallback, the fit gets past on_train_start and once more than
\* phase_1_duration training batches are processed warmed_up is True.
C24_RunBecomesWarmedUp ==
    ~callback_attached =>
        /\ ~(saved_step = NoAttr /\ pc = "crashed")
        /\ global_step > warmup => warmed_up

====
